---- MODULE Spec2Model ----
(***************************************************************************)
(* A model of logbook's _speedups extension (src/rust/src/lib.rs and       *)
(* src/rust/src/contextvars.rs): the ContextStackManager with its global   *)
(* stack, its context-local stack held in a ContextVar, its weak-keyed     *)
(* merge cache and its stack counter, and the ContextVar wrapper.          *)
(*                                                                         *)
(* Spec         every handler is one atomic action; execution contexts     *)
(*              (cooperative tasks) interleave whole operations.           *)
(* SpecThreads  execution contexts are preemptive threads: a handler can   *)
(*              lose the interpreter lock wherever it calls into Python    *)
(*              code (the WeakKeyDictionary's methods), so its steps       *)
(*              interleave with other threads' steps.                      *)
(* SpecPushes   SpecThreads without the reads: the threads' pushes, step   *)
(*              by step, and pops.                                         *)
(* SpecReaders  the threads' reads, step by step, racing one another;      *)
(*              pushes and pops run whole, while no read is under way.     *)
(* SpecVar      the ContextVar wrapper alone: get, set and reset.          *)
(* SpecSeq      FrozenSequence alone: __eq__ and __hash__ of two objects.  *)
(*                                                                         *)
(* The manager never inspects the objects it stacks, so a run is fixed, up *)
(* to renaming, by which push each object came from: every push supplies a *)
(* new object, named after the sequence number it draws (ObjOf).           *)
(***************************************************************************)
EXTENDS Integers, Sequences, FiniteSets, TLC

\* ------------------------------------------------------------------ bounds
\* Number of execution contexts (context 1 is the main one, others are forked).
NumCtx == 2
\* Cap on stack_count: the number of pushes of one run.
MaxSeq == 2
\* Cap on the number of ContextVar.set calls of one run (SpecVar).
MaxTokens == 2
\* SpecSeq: the longest element sequence, and the number of distinct elements.
MaxLen == 2
NumElems == 2
\* SpecSeq: hashes are isize in lib.rs:109; the model's wrap at a small modulus.
HashMod == 5
\* lib.rs:126 sets 256; the model runs the same comparison with a cap small
\* enough for the contexts above to fill the cache.
MAX_CONTEXT_OBJECT_CACHE == 2

Ctx == 1..NumCtx
\* The opaque objects pushed by callers: the push that draws n supplies ObjOf(n).
ObjNames == <<"A", "X", "B", "Y", "C", "Z">>
ObjOf(n) == ObjNames[(n % Len(ObjNames)) + 1]
Objs == {ObjNames[i] : i \in 1..Len(ObjNames)}
\* The values a ContextVar is given in SpecVar.
Vals == {"foo", "bar", "baz"}

Last(q) == q[Len(q)]
Front(q) == SubSeq(q, 1, Len(q) - 1)

\* Option<T>: None is the empty tuple, Some(x) the one-element tuple.
None == <<>>
Some(x) == <<x>>

VARIABLES
    global,         \* Py<PyList>: the application stack, a sequence of <<seq, obj>>
    context_stack,  \* Py<PyContextVar>: per context, None (unset) or Some(FrozenSequence)
    cache,          \* WeakKeyDictionary: set of [key |-> FrozenSequence, val |-> objects]
    stack_count,    \* AtomicUsize
    alive,          \* the execution contexts that exist
    ret,            \* the outcome of the last completed operation
    pc,             \* SpecThreads: where each context's handler stands
    local,          \* SpecThreads: the locals of each context's handler
    cv_default,     \* SpecVar: the ContextVar's configured default, or None
    cv_values,      \* SpecVar: per context, None (unset) or Some(value)
    cv_tokens,      \* SpecVar: the Tokens set() has returned, in order
    cv_ret,         \* SpecVar: the outcome of the last get, set or reset
    fs,             \* SpecSeq: two FrozenSequence objects, a and b
    fs_ret          \* SpecSeq: the outcome of the last __eq__ or __hash__

mgr_vars == <<global, context_stack, cache, stack_count>>
thr_vars == <<pc, local>>
cv_vars == <<cv_default, cv_values, cv_tokens, cv_ret>>
seq_vars == <<fs, fs_ret>>
vars == <<global, context_stack, cache, stack_count, alive, ret,
          pc, local, cv_default, cv_values, cv_tokens, cv_ret, fs, fs_ret>>

\* The manager's fields as one value, so that a handler is a function of it.
State ==
    [global |-> global, context_stack |-> context_stack,
     cache |-> cache, stack_count |-> stack_count]

Becomes(T) ==
    /\ global' = T.global
    /\ context_stack' = T.context_stack
    /\ cache' = T.cache
    /\ stack_count' = T.stack_count

\* ------------------------------------------------------- FrozenSequence
\* A FrozenSequence object: its identity (the Python object) and its items.
\* __eq__ and __hash__ go by the items alone (lib.rs:105-113).
FrozenSequence_new(oid, items) == [oid |-> oid, items |-> items]

\* FrozenSequence::empty, the ContextVar's default: one object, made in __new__.
FrozenSequence_empty == FrozenSequence_new(0, <<>>)

\* Mutant of FrozenSequence_eq: the order of the elements is not compared.
FrozenSequence_eq_unordered(a, b) ==
    {a.items[i] : i \in DOMAIN a.items} = {b.items[i] : i \in DOMAIN b.items}

FrozenSequence_eq(a, b) == a.items = b.items

\* The two objects of SpecSeq, their elements (small integers, which hash to
\* themselves) and the element sequences they are made from.
Fs == {"a", "b"}
Elems == 1..NumElems
FsSeqs == UNION {[1..n -> Elems] : n \in 0..MaxLen}

\* A FrozenSequence object with its hash_cache: PyOnceLock<isize>, None until set.
FrozenSequence_object(oid, items) ==
    [oid |-> oid, items |-> items, hash_cache |-> None]

\* items.hash(): the tuple's hash, a fold of the elements' hashes in order.
RECURSIVE tuple_hash(_)
tuple_hash(t) ==
    IF t = <<>> THEN 1
    ELSE (tuple_hash(Front(t)) * 3 + Last(t)) % HashMod

\* __hash__: hash_cache.get_or_try_init(|| items.hash()).copied(); the object
\* after the call and the value returned.
FrozenSequence_hash(o) ==
    LET h == IF o.hash_cache = None THEN tuple_hash(o.items) ELSE o.hash_cache[1]
    IN  [self |-> [o EXCEPT !.hash_cache = Some(h)], val |-> h]

\* ----------------------------------------------------------- ContextVar
\* Mutant of PyContextVar_Get: the variable's own default goes before the
\* call's default_value.
PyContextVar_Get_default_first(value, default_value, var_default) ==
    IF value # None THEN value
    ELSE IF var_default # None THEN var_default
    ELSE default_value

\* PyContextVar_Get: the context's value, else the call's default_value,
\* else the variable's own default, else nothing.
PyContextVar_Get(value, default_value, var_default) ==
    IF value # None THEN value
    ELSE IF default_value # None THEN default_value
    ELSE var_default

\* Mutant of PyContextVar_Set: the new value shows in every context that shared
\* the caller's binding (a snapshot mutated in place).
PyContextVar_Set_shared(values, c, v) ==
    [d \in Ctx |-> IF values[d] = values[c] THEN Some(v) ELSE values[d]]

\* PyContextVar_Set: binds the value in the calling context only.
PyContextVar_Set(values, c, v) == [values EXCEPT ![c] = Some(v)]

\* ------------------------------------------------------------ the cache
\* Object identities some context (or the ContextVar default) references.
LiveOids(values) == {0} \cup {values[c][1].oid : c \in {d \in Ctx : values[d] # None}}

\* A fresh object: an identity nothing live carries.
NewOid(values) == CHOOSE n \in 1..(NumCtx + 1) : n \notin LiveOids(values)

\* Mutant of WeakKeyReclaim: rebinding a context's snapshot empties the cache.
WeakKeyReclaim_all(c0, values) == {}

\* Weak keys: an entry goes when its key object is no longer referenced.
WeakKeyReclaim(c0, values) == {e \in c0 : e.key.oid \in LiveOids(values)}

\* cache.get_item(&stack): the entries whose key equals the stack (by items).
cache_get_item(c0, stack) == {e \in c0 : FrozenSequence_eq(e.key, stack)}

\* Mutant of cache_set_item: nothing is stored.
cache_set_item_lost(c0, stack, objects) == c0

\* Mutant of cache_set_item: an equal key that is another object gets an
\* entry of its own.
cache_set_item_dup(c0, stack, objects) ==
    c0 \cup {[key |-> stack, val |-> objects]}

\* cache.set_item(stack, objects): an equal key keeps its first key object.
cache_set_item(c0, stack, objects) ==
    LET hit == cache_get_item(c0, stack)
    IN  IF hit = {} THEN c0 \cup {[key |-> stack, val |-> objects]}
        ELSE (c0 \ hit) \cup {[key |-> e.key, val |-> objects] : e \in hit}

\* Mutant of cache_full: the comparison is strict.
cache_full_gt(c0) == Cardinality(c0) > MAX_CONTEXT_OBJECT_CACHE

\* cache.len()? >= MAX_CONTEXT_OBJECT_CACHE
cache_full(c0) == Cardinality(c0) >= MAX_CONTEXT_OBJECT_CACHE

\* ------------------------------------------------------------ the merge
\* Insert x into a sequence sorted by descending seq, after its equals.
RECURSIVE InsertDesc(_, _)
InsertDesc(x, s) ==
    IF s = <<>> THEN <<x>>
    ELSE IF Head(s)[1] >= x[1] THEN <<Head(s)>> \o InsertDesc(x, Tail(s))
    ELSE <<x>> \o s

\* Mutant of sort_by_key: the chained entries are left in chain order.
sort_by_key_unsorted(s) == s

\* stack_objects.sort_by_key(|item| Reverse(item.0)): a stable sort.
RECURSIVE sort_by_key(_)
sort_by_key(s) ==
    IF s = <<>> THEN <<>>
    ELSE InsertDesc(s[Len(s)], sort_by_key(SubSeq(s, 1, Len(s) - 1)))

\* global.chain(stack), sorted, projected to the objects.
merge_objects(g, stack) ==
    LET stack_objects == sort_by_key(g \o stack.items)
    IN  [i \in 1..Len(stack_objects) |-> stack_objects[i][2]]

\* Mutant of split_last: the first entry is split off.
split_first(items) ==
    IF items = <<>> THEN None
    ELSE Some([popped |-> items[1], remaining |-> Tail(items)])

\* items.as_slice().split_last()
split_last(items) ==
    IF items = <<>> THEN None
    ELSE Some([popped |-> items[Len(items)],
               remaining |-> SubSeq(items, 1, Len(items) - 1)])

\* Mutant of concat: the new entry goes in front.
concat_front(items, new_item) == <<new_item>> \o items

\* items.concat((new_item,))
concat(items, new_item) == Append(items, new_item)

\* ------------------------------------------------------------- handlers
\* A handler maps the manager's state to the state after it and its PyResult.
Result(T, ok, val) == [state |-> T, ok |-> ok, val |-> val]

\* context_stack.get(None): the manager's ContextVar has the empty default.
get_stack(S, c) ==
    PyContextVar_Get(S.context_stack[c], None, Some(FrozenSequence_empty))

\* The items of the snapshot context c sees in state S.
StackItems(S, c) == get_stack(S, c)[1].items

\* context_stack.set(FrozenSequence::new(items)); the Token and the handler's
\* own reference to the old snapshot are dropped when the handler returns.
set_stack(S, c, items) ==
    LET new == FrozenSequence_new(NewOid(S.context_stack), items)
        values == PyContextVar_Set(S.context_stack, c, new)
    IN  [S EXCEPT !.context_stack = values,
                  !.cache = WeakKeyReclaim(S.cache, values)]

\* Mutant of miss_cache: a full cache gives up one entry, not all.
miss_cache_evict_one(c0, stack, objects) ==
    LET c1 == IF cache_full(c0) THEN c0 \ {CHOOSE e \in c0 : TRUE} ELSE c0
    IN  cache_set_item(c1, stack, objects)

\* The miss path of iter_context_objects: the cache after it.
miss_cache(c0, stack, objects) ==
    LET c1 == IF cache_full(c0) THEN {} ELSE c0
    IN  cache_set_item(c1, stack, objects)

iter_context_objects(S, c) ==
    LET got == get_stack(S, c)
    IN  IF got = None THEN Result(S, FALSE, Some("LookupError"))
        ELSE LET stack == got[1]
                 hit == cache_get_item(S.cache, stack)
             IN  IF hit # {}
                 THEN Result(S, TRUE, Some((CHOOSE e \in hit : TRUE).val))
                 ELSE LET objects == merge_objects(S.global, stack)
                      IN  Result([S EXCEPT !.cache = miss_cache(S.cache, stack, objects)],
                                 TRUE, Some(objects))

\* Mutant of push_context: the entry carries the counter's value after the
\* increment.
push_context_post(S, c, obj) ==
    LET S1 == [S EXCEPT !.stack_count = S.stack_count + 1]
        new_item == <<S1.stack_count, obj>>
    IN  Result(set_stack(S1, c, concat(get_stack(S1, c)[1].items, new_item)),
               TRUE, None)

push_context(S, c, obj) ==
    LET new_item == <<S.stack_count, obj>>
        S1 == [S EXCEPT !.stack_count = S.stack_count + 1]
        got == get_stack(S1, c)
    IN  IF got = None THEN Result(S1, FALSE, Some("LookupError"))
        ELSE Result(set_stack(S1, c, concat(got[1].items, new_item)), TRUE, None)

\* Mutant of pop_context: an empty stack yields nothing instead of an error.
pop_context_silent(S, c) ==
    LET items == get_stack(S, c)[1].items
    IN  IF items = <<>> THEN Result(set_stack(S, c, <<>>), TRUE, None)
        ELSE Result(set_stack(S, c, SubSeq(items, 1, Len(items) - 1)),
                    TRUE, Some(items[Len(items)][2]))

pop_context(S, c) ==
    LET got == get_stack(S, c)
    IN  IF got = None THEN Result(S, FALSE, Some("LookupError"))
        ELSE LET split == split_last(got[1].items)
             IN  IF split = None
                 THEN Result(S, FALSE, Some("no objects on stack"))
                 ELSE Result(set_stack(S, c, split[1].remaining),
                             TRUE, Some(split[1].popped[2]))

\* Mutant of push_application: the cache is not cleared.
push_application_noclear(S, obj) ==
    Result([S EXCEPT !.stack_count = S.stack_count + 1,
                     !.global = Append(S.global, <<S.stack_count, obj>>)],
           TRUE, None)

push_application(S, obj) ==
    LET new_item == <<S.stack_count, obj>>
    IN  Result([S EXCEPT !.stack_count = S.stack_count + 1,
                         !.global = Append(S.global, new_item),
                         !.cache = {}],
               TRUE, None)

\* Mutant of pop_application: the cache is cleared before the stack is looked
\* at, so a pop that fails has cleared it too.
pop_application_clear_first(S) ==
    IF S.global = <<>>
    THEN Result([S EXCEPT !.cache = {}], FALSE, Some("no objects on application stack"))
    ELSE Result([S EXCEPT !.global = SubSeq(S.global, 1, Len(S.global) - 1),
                          !.cache = {}],
                TRUE, Some(S.global[Len(S.global)][2]))

\* Mutant of pop_application: the cache is not cleared.
pop_application_noclear(S) ==
    IF S.global = <<>>
    THEN Result(S, FALSE, Some("no objects on application stack"))
    ELSE Result([S EXCEPT !.global = SubSeq(S.global, 1, Len(S.global) - 1)],
                TRUE, Some(S.global[Len(S.global)][2]))

\* Mutant of pop_application: the oldest entry is removed.
pop_application_fifo(S) ==
    IF S.global = <<>>
    THEN Result(S, FALSE, Some("no objects on application stack"))
    ELSE Result([S EXCEPT !.global = Tail(S.global), !.cache = {}],
                TRUE, Some(S.global[1][2]))

pop_application(S) ==
    IF S.global = <<>>
    THEN Result(S, FALSE, Some("no objects on application stack"))
    ELSE Result([S EXCEPT !.global = SubSeq(S.global, 1, Len(S.global) - 1),
                          !.cache = {}],
                TRUE, Some(S.global[Len(S.global)][2]))

\* ------------------------------------------------------------- outcomes
NoOp == [op |-> "none", ctx |-> 0, ok |-> TRUE, val |-> None, note |-> None]

AppOps == {"push_application", "pop_application"}

\* What the outcome of an operation notes about the run that led to it:
\*   push/pop_application  the snapshots that were cached when it began;
\*   iter                  whether it hit, missed or reset the full cache, and
\*                         whether it directly follows a global mutation that
\*                         found the caller's snapshot cached;
\*   pop_context           whether it directly follows the caller's push_context.
Note(op, c) ==
    CASE op \in AppOps -> {e.key.items : e \in cache}
      [] op = "iter" ->
            <<IF cache_get_item(cache, get_stack(State, c)[1]) # {} THEN "hit"
              ELSE IF cache_full(cache) THEN "reset" ELSE "miss",
              ret.op \in AppOps /\ ret.ok /\ StackItems(State, c) \in ret.note>>
      [] op = "pop_context" -> ret.op = "push_context" /\ ret.ctx = c
      [] OTHER -> None

\* What a completed operation leaves in ret: who called what, the PyResult and
\* the note. The application stack is the same whoever calls, so its caller is
\* not kept.
Outcome(op, c, r) ==
    [op |-> op, ctx |-> IF op \in AppOps THEN 0 ELSE c,
     ok |-> r.ok, val |-> r.val, note |-> Note(op, c)]

\* ------------------------------------------------------------------ Init
NoLocal ==
    [stack |-> FrozenSequence_empty, objects |-> <<>>, popped |-> None,
     new_item |-> None]

NoFsRet == [op |-> "none", self |-> "a", other |-> "a", val |-> None]

NoCvRet == [op |-> "none", ctx |-> 0, ok |-> TRUE, val |-> None, arg |-> None, tok |-> 0]

\* ContextStackManager::__new__
Init ==
    /\ global = <<>>
    /\ context_stack = [c \in Ctx |-> None]
    /\ cache = {}
    /\ stack_count = 0
    /\ alive = {1}
    /\ ret = NoOp
    /\ pc = [c \in Ctx |-> "idle"]
    /\ local = [c \in Ctx |-> NoLocal]
    /\ cv_default = None
    /\ cv_values = [c \in Ctx |-> None]
    /\ cv_tokens = <<>>
    /\ cv_ret = NoCvRet
    /\ fs = [x \in Fs |-> FrozenSequence_object(0, <<>>)]
    /\ fs_ret = NoFsRet

\* --------------------------------------------------------------- actions
\* A new execution context (the next unused one) starts from a copy of its
\* creator's context: every ContextVar's binding is copied.
Fork(p, c) ==
    /\ p \in alive /\ c \notin alive /\ c = Cardinality(alive) + 1
    /\ pc[p] = "idle"
    /\ alive' = alive \cup {c}
    /\ context_stack' = [context_stack EXCEPT ![c] = context_stack[p]]
    /\ cv_values' = [cv_values EXCEPT ![c] = cv_values[p]]
    /\ ret' = Outcome("fork", c, Result(State, TRUE, Some(p)))
    /\ UNCHANGED <<global, cache, stack_count, thr_vars, cv_default, cv_tokens, cv_ret,
                 seq_vars>>

IterContextObjects(c) ==
    /\ c \in alive
    /\ LET r == iter_context_objects(State, c)
       IN  Becomes(r.state) /\ ret' = Outcome("iter", c, r)
    /\ UNCHANGED <<alive, thr_vars, cv_vars, seq_vars>>

PushContext(c) ==
    /\ c \in alive /\ stack_count < MaxSeq
    /\ LET r == push_context(State, c, ObjOf(stack_count))
       IN  Becomes(r.state) /\ ret' = Outcome("push_context", c, r)
    /\ UNCHANGED <<alive, thr_vars, cv_vars, seq_vars>>

PopContext(c) ==
    /\ c \in alive
    /\ LET r == pop_context(State, c)
       IN  Becomes(r.state) /\ ret' = Outcome("pop_context", c, r)
    /\ UNCHANGED <<alive, thr_vars, cv_vars, seq_vars>>

PushApplication(c) ==
    /\ c \in alive /\ stack_count < MaxSeq
    /\ LET r == push_application(State, ObjOf(stack_count))
       IN  Becomes(r.state) /\ ret' = Outcome("push_application", c, r)
    /\ UNCHANGED <<alive, thr_vars, cv_vars, seq_vars>>

PopApplication(c) ==
    /\ c \in alive
    /\ LET r == pop_application(State)
       IN  Becomes(r.state) /\ ret' = Outcome("pop_application", c, r)
    /\ UNCHANGED <<alive, thr_vars, cv_vars, seq_vars>>

Next ==
    \/ \E p \in Ctx, c \in Ctx : Fork(p, c)
    \/ \E c \in Ctx : IterContextObjects(c)
    \/ \E c \in Ctx : PushContext(c)
    \/ \E c \in Ctx : PopContext(c)
    \/ \E c \in Ctx : PushApplication(c)
    \/ \E c \in Ctx : PopApplication(c)

Spec == Init /\ [][Next]_vars

\* ------------------------------------------------------------- threads
\* The handlers step by step, for contexts that are preemptive threads. A
\* handler holds the interpreter lock while it runs Rust or C code (the
\* ContextVar, the list, the tuples, the sort) and can lose it inside each
\* call of a WeakKeyDictionary method, which is Python code: the lookup, len,
\* clear and the insertion are the points where the cache is read or written,
\* and another thread can run between any two of them. clear, a loop of
\* popitem that ends when it finds the dictionary empty, takes effect there.
\* A push draws its sequence number with an atomic fetch_add and then builds
\* the new entry, a tuple: the allocation can start a garbage collection,
\* which runs finalizers and weak reference callbacks, Python code again, and
\* a build without the interpreter lock runs the threads in parallel anyway.
\* So the draw and what follows it are two steps.

\* What a handler that has returned leaves in ret.
Done(op, c, ok, val) ==
    [op |-> op, ctx |-> IF op \in AppOps THEN 0 ELSE c,
     ok |-> ok, val |-> val, note |-> None]

Goto(c, label) == pc' = [pc EXCEPT ![c] = label]

Return(c, op, ok, val) ==
    /\ pc' = [pc EXCEPT ![c] = "idle"]
    /\ local' = [local EXCEPT ![c] = NoLocal]
    /\ ret' = Done(op, c, ok, val)

\* iter_context_objects: context_stack.get(None) and cache.get_item(&stack).
T_CacheGetItem(c) ==
    /\ c \in alive /\ pc[c] = "idle"
    /\ LET stack == get_stack(State, c)[1]
           hit == cache_get_item(cache, stack)
       IN  IF hit # {}
           THEN Return(c, "iter", TRUE, Some((CHOOSE e \in hit : TRUE).val))
           ELSE /\ Goto(c, "cache_len")
                /\ local' = [local EXCEPT ![c].stack = stack]
                /\ UNCHANGED ret
    /\ UNCHANGED <<mgr_vars, alive, cv_vars, seq_vars>>

\* iter_context_objects: cache.len()? >= MAX_CONTEXT_OBJECT_CACHE
T_CacheLen(c) ==
    /\ pc[c] = "cache_len"
    /\ Goto(c, IF cache_full(cache) THEN "cache_clear" ELSE "read_global")
    /\ UNCHANGED <<mgr_vars, alive, ret, local, cv_vars, seq_vars>>

\* iter_context_objects: cache.clear() of the full cache.
T_CacheClear(c) ==
    /\ pc[c] = "cache_clear"
    /\ cache' = {}
    /\ Goto(c, "read_global")
    /\ UNCHANGED <<global, context_stack, stack_count, alive, ret, local, cv_vars, seq_vars>>

\* iter_context_objects: the global list is read, chained, sorted, projected.
T_ReadGlobal(c) ==
    /\ pc[c] = "read_global"
    /\ local' = [local EXCEPT ![c].objects = merge_objects(global, local[c].stack)]
    /\ Goto(c, "cache_set_item")
    /\ UNCHANGED <<mgr_vars, alive, ret, cv_vars, seq_vars>>

\* iter_context_objects: cache.set_item(stack, objects), and the return.
T_CacheSetItem(c) ==
    /\ pc[c] = "cache_set_item"
    /\ cache' = cache_set_item(cache, local[c].stack, local[c].objects)
    /\ Return(c, "iter", TRUE, Some(local[c].objects))
    /\ UNCHANGED <<global, context_stack, stack_count, alive, cv_vars, seq_vars>>

\* push_application: new_item = (self.stackop(), obj)
T_StackopApplication(c) ==
    /\ c \in alive /\ pc[c] = "idle" /\ stack_count < MaxSeq
    /\ stack_count' = stack_count + 1
    /\ local' = [local EXCEPT ![c].new_item = Some(<<stack_count, ObjOf(stack_count)>>)]
    /\ Goto(c, "append")
    /\ UNCHANGED <<global, context_stack, cache, alive, ret, cv_vars, seq_vars>>

\* push_application: global.append(new_item)
T_Append(c) ==
    /\ pc[c] = "append"
    /\ global' = Append(global, local[c].new_item[1])
    /\ Goto(c, "push_clear")
    /\ UNCHANGED <<context_stack, cache, stack_count, alive, ret, local, cv_vars, seq_vars>>

\* push_application: cache.clear(), and the return.
T_PushClear(c) ==
    /\ pc[c] = "push_clear"
    /\ cache' = {}
    /\ Return(c, "push_application", TRUE, None)
    /\ UNCHANGED <<global, context_stack, stack_count, alive, cv_vars, seq_vars>>

\* pop_application: global.is_empty() and global.pop().
T_Pop(c) ==
    /\ c \in alive /\ pc[c] = "idle"
    /\ IF global = <<>>
       THEN /\ Return(c, "pop_application", FALSE,
                      Some("no objects on application stack"))
            /\ UNCHANGED global
       ELSE /\ global' = Front(global)
            /\ local' = [local EXCEPT ![c].popped = Some(Last(global)[2])]
            /\ Goto(c, "pop_clear")
            /\ UNCHANGED ret
    /\ UNCHANGED <<context_stack, cache, stack_count, alive, cv_vars, seq_vars>>

\* pop_application: cache.clear(), and the return of popped[1].
T_PopClear(c) ==
    /\ pc[c] = "pop_clear"
    /\ cache' = {}
    /\ Return(c, "pop_application", TRUE, local[c].popped)
    /\ UNCHANGED <<global, context_stack, stack_count, alive, cv_vars, seq_vars>>

\* Mutant of T_StackopContext: the increment is lost, as when two threads
\* load and store the counter without an atomic read-modify-write.
T_StackopContext_lost(c) ==
    /\ c \in alive /\ pc[c] = "idle" /\ stack_count < MaxSeq
    /\ local' = [local EXCEPT ![c].new_item = Some(<<stack_count, ObjOf(stack_count)>>)]
    /\ Goto(c, "context_set")
    /\ UNCHANGED <<mgr_vars, alive, ret, cv_vars, seq_vars>>

\* push_context: new_item = (self.stackop(), obj)
T_StackopContext(c) ==
    /\ c \in alive /\ pc[c] = "idle" /\ stack_count < MaxSeq
    /\ stack_count' = stack_count + 1
    /\ local' = [local EXCEPT ![c].new_item = Some(<<stack_count, ObjOf(stack_count)>>)]
    /\ Goto(c, "context_set")
    /\ UNCHANGED <<global, context_stack, cache, alive, ret, cv_vars, seq_vars>>

\* push_context: context_stack.get, concat, context_stack.set, and the return.
T_ContextSet(c) ==
    /\ pc[c] = "context_set"
    /\ LET T == set_stack(State, c, concat(StackItems(State, c), local[c].new_item[1]))
       IN  /\ context_stack' = T.context_stack
           /\ cache' = T.cache
    /\ Return(c, "push_context", TRUE, None)
    /\ UNCHANGED <<global, stack_count, alive, cv_vars, seq_vars>>

\* pop_context calls no Python code: it runs in one stretch.
T_PopContext(c) == pc[c] = "idle" /\ PopContext(c)

NextThreads ==
    \/ \E p \in Ctx, c \in Ctx : Fork(p, c)
    \/ \E c \in Ctx : T_CacheGetItem(c)
    \/ \E c \in Ctx : T_CacheLen(c)
    \/ \E c \in Ctx : T_CacheClear(c)
    \/ \E c \in Ctx : T_ReadGlobal(c)
    \/ \E c \in Ctx : T_CacheSetItem(c)
    \/ \E c \in Ctx : T_StackopApplication(c)
    \/ \E c \in Ctx : T_Append(c)
    \/ \E c \in Ctx : T_PushClear(c)
    \/ \E c \in Ctx : T_Pop(c)
    \/ \E c \in Ctx : T_PopClear(c)
    \/ \E c \in Ctx : T_StackopContext(c)
    \/ \E c \in Ctx : T_ContextSet(c)
    \/ \E c \in Ctx : T_PopContext(c)

SpecThreads == Init /\ [][NextThreads]_vars

\* The pushes and pops of the threads alone: iter_context_objects touches
\* neither the counter nor any stack entry.
NextPushes ==
    \/ \E p \in Ctx, c \in Ctx : Fork(p, c)
    \/ \E c \in Ctx : T_StackopApplication(c)
    \/ \E c \in Ctx : T_Append(c)
    \/ \E c \in Ctx : T_PushClear(c)
    \/ \E c \in Ctx : T_Pop(c)
    \/ \E c \in Ctx : T_PopClear(c)
    \/ \E c \in Ctx : T_StackopContext(c)
    \/ \E c \in Ctx : T_ContextSet(c)
    \/ \E c \in Ctx : T_PopContext(c)

SpecPushes == Init /\ [][NextPushes]_vars

\* Reads racing reads: the steps of iter_context_objects of several threads
\* interleave, and the stacks change only while no read is under way (the
\* handlers of Spec, whose outcomes ret does not keep here).
Quiet == \A d \in Ctx : pc[d] = "idle"

R_PushContext(c) ==
    /\ c \in alive /\ Quiet /\ stack_count < MaxSeq
    /\ Becomes(push_context(State, c, ObjOf(stack_count)).state)
    /\ ret' = NoOp
    /\ UNCHANGED <<alive, thr_vars, cv_vars, seq_vars>>

R_PopContext(c) ==
    /\ c \in alive /\ Quiet
    /\ Becomes(pop_context(State, c).state)
    /\ ret' = NoOp
    /\ UNCHANGED <<alive, thr_vars, cv_vars, seq_vars>>

R_PushApplication(c) ==
    /\ c \in alive /\ Quiet /\ stack_count < MaxSeq
    /\ Becomes(push_application(State, ObjOf(stack_count)).state)
    /\ ret' = NoOp
    /\ UNCHANGED <<alive, thr_vars, cv_vars, seq_vars>>

R_PopApplication(c) ==
    /\ c \in alive /\ Quiet
    /\ Becomes(pop_application(State).state)
    /\ ret' = NoOp
    /\ UNCHANGED <<alive, thr_vars, cv_vars, seq_vars>>

NextReaders ==
    \/ \E p \in Ctx, c \in Ctx : Fork(p, c)
    \/ \E c \in Ctx : T_CacheGetItem(c)
    \/ \E c \in Ctx : T_CacheLen(c)
    \/ \E c \in Ctx : T_CacheClear(c)
    \/ \E c \in Ctx : T_ReadGlobal(c)
    \/ \E c \in Ctx : T_CacheSetItem(c)
    \/ \E c \in Ctx : R_PushContext(c)
    \/ \E c \in Ctx : R_PopContext(c)
    \/ \E c \in Ctx : R_PushApplication(c)
    \/ \E c \in Ctx : R_PopApplication(c)

SpecReaders == Init /\ [][NextReaders]_vars

\* ---------------------------------------------------- the ContextVar alone
\* The wrapper of contextvars.rs over one ContextVar, created without a default
\* (PyContextVar::new) or with one (PyContextVar::new_with_default), as its
\* tests drive it: get with and without a fallback, set, reset.

\* What get can be passed: nothing, or a fallback value.
Fallbacks == {None} \cup {Some(v) : v \in Vals}

\* Mutant of Token_old_value: the token captures what get() returned, the
\* configured default included.
Token_old_value_default(values, c, var_default) ==
    PyContextVar_Get(values[c], None, var_default)

\* Token.old_value: the context's binding before the set; None is MISSING.
Token_old_value(values, c, var_default) == values[c]

\* PyContextVar_Reset: the binding goes back to the token's old value (no
\* binding, for MISSING).
PyContextVar_Reset(values, c, token) == [values EXCEPT ![c] = token.old_value]

InitVar ==
    /\ global = <<>>
    /\ context_stack = [c \in Ctx |-> None]
    /\ cache = {}
    /\ stack_count = 0
    /\ alive = {1}
    /\ ret = NoOp
    /\ pc = [c \in Ctx |-> "idle"]
    /\ local = [c \in Ctx |-> NoLocal]
    /\ cv_default \in {None, Some("foo")}
    /\ cv_values = [c \in Ctx |-> None]
    /\ cv_tokens = <<>>
    /\ cv_ret = NoCvRet
    /\ fs = [x \in Fs |-> FrozenSequence_object(0, <<>>)]
    /\ fs_ret = NoFsRet

\* var.get(default_value)
CvGet(c, fb) ==
    /\ c \in alive
    /\ cv_ret' = [op |-> "get", ctx |-> c, ok |-> TRUE,
                  val |-> PyContextVar_Get(cv_values[c], fb, cv_default),
                  arg |-> fb, tok |-> 0]
    /\ UNCHANGED <<mgr_vars, alive, ret, thr_vars, cv_default, cv_values, cv_tokens,
                 seq_vars>>

\* var.set(value): the Token remembers its context and the old value; `before`
\* notes what each get returned just before the set.
CvSet(c, v) ==
    /\ c \in alive /\ Len(cv_tokens) < MaxTokens
    /\ cv_tokens' = Append(cv_tokens,
           [ctx |-> c, used |-> FALSE,
            old_value |-> Token_old_value(cv_values, c, cv_default),
            before |-> [fb \in Fallbacks |->
                           PyContextVar_Get(cv_values[c], fb, cv_default)]])
    /\ cv_values' = PyContextVar_Set(cv_values, c, v)
    /\ cv_ret' = [op |-> "set", ctx |-> c, ok |-> TRUE, val |-> None,
                  arg |-> Some(v), tok |-> Len(cv_tokens) + 1]
    /\ UNCHANGED <<mgr_vars, alive, ret, thr_vars, cv_default, seq_vars>>

\* var.reset(&token): PyContextVar_Reset fails, changing nothing, for a token
\* that was used already or was made in another context.
CvReset(c, t) ==
    /\ c \in alive /\ t \in 1..Len(cv_tokens)
    /\ IF cv_tokens[t].used
       THEN /\ cv_ret' = [op |-> "reset", ctx |-> c, ok |-> FALSE,
                          val |-> Some("RuntimeError"), arg |-> None, tok |-> t]
            /\ UNCHANGED <<cv_values, cv_tokens>>
       ELSE IF cv_tokens[t].ctx # c
       THEN /\ cv_ret' = [op |-> "reset", ctx |-> c, ok |-> FALSE,
                          val |-> Some("ValueError"), arg |-> None, tok |-> t]
            /\ UNCHANGED <<cv_values, cv_tokens>>
       ELSE /\ cv_values' = PyContextVar_Reset(cv_values, c, cv_tokens[t])
            /\ cv_tokens' = [cv_tokens EXCEPT ![t].used = TRUE]
            /\ cv_ret' = [op |-> "reset", ctx |-> c, ok |-> TRUE,
                          val |-> None, arg |-> None, tok |-> t]
    /\ UNCHANGED <<mgr_vars, alive, ret, thr_vars, cv_default, seq_vars>>

NextVar ==
    \/ \E p \in Ctx, c \in Ctx : Fork(p, c)
    \/ \E c \in Ctx, fb \in Fallbacks : CvGet(c, fb)
    \/ \E c \in Ctx, v \in Vals : CvSet(c, v)
    \/ \E c \in Ctx, t \in 1..MaxTokens : CvReset(c, t)

SpecVar == InitVar /\ [][NextVar]_vars

\* ------------------------------------------------ FrozenSequence alone
\* Two FrozenSequence objects made from any two element sequences.
InitSeq ==
    /\ global = <<>>
    /\ context_stack = [c \in Ctx |-> None]
    /\ cache = {}
    /\ stack_count = 0
    /\ alive = {1}
    /\ ret = NoOp
    /\ pc = [c \in Ctx |-> "idle"]
    /\ local = [c \in Ctx |-> NoLocal]
    /\ cv_default = None
    /\ cv_values = [c \in Ctx |-> None]
    /\ cv_tokens = <<>>
    /\ cv_ret = NoCvRet
    /\ \E s \in FsSeqs, t \in FsSeqs :
           fs = [x \in Fs |-> FrozenSequence_object(IF x = "a" THEN 1 ELSE 2,
                                                    IF x = "a" THEN s ELSE t)]
    /\ fs_ret = NoFsRet

\* x == y
FsEq(x, y) ==
    /\ fs_ret' = [op |-> "eq", self |-> x, other |-> y,
                  val |-> Some(FrozenSequence_eq(fs[x], fs[y]))]
    /\ UNCHANGED <<mgr_vars, alive, ret, thr_vars, cv_vars, fs>>

\* hash(x)
FsHash(x) ==
    /\ LET r == FrozenSequence_hash(fs[x])
       IN  /\ fs' = [fs EXCEPT ![x] = r.self]
           /\ fs_ret' = [op |-> "hash", self |-> x, other |-> x, val |-> Some(r.val)]
    /\ UNCHANGED <<mgr_vars, alive, ret, thr_vars, cv_vars>>

NextSeq ==
    \/ \E x \in Fs, y \in Fs : FsEq(x, y)
    \/ \E x \in Fs : FsHash(x)

SpecSeq == InitSeq /\ [][NextSeq]_vars

\* ============================================================== claims
\* The entries context c can see in state S: the global stack's and its own.
Range(q) == {q[i] : i \in 1..Len(q)}
Entries(S, c) == Range(S.global) \cup Range(StackItems(S, c))

\* The objects of a set of entries, by strictly descending sequence number:
\* the i-th is the object of the entry with exactly i-1 higher numbers.
Descending(E) ==
    [i \in 1..Cardinality(E) |->
        (CHOOSE e \in E : Cardinality({f \in E : f[1] > e[1]}) = i - 1)[2]]


\* C1: in every reachable state and for every context, iter_context_objects
\* succeeds and yields exactly the objects of the entries on the global stack
\* and on that context's stack, each once, by strictly descending sequence
\* number (the most recently pushed first, whichever stack it went to).
C1_MergedOrder ==
    \A c \in alive :
        LET r == iter_context_objects(State, c)
        IN  /\ r.ok
            /\ Len(r.val[1]) = Len(global) + Len(StackItems(State, c))
            /\ r.val[1] = Descending(Entries(State, c))

\* C1 witness: after push_application(A) and then push_context(X),
\* iter_context_objects in that context has returned [X, A]: the later push
\* first, though the global stack's entries are chained first.
C1_Witness ==
    /\ ret.op = "iter" /\ ret.ok
    /\ ret.val = Some(<<"X", "A">>)
    /\ global = <<<<0, "A">>>>
    /\ StackItems(State, ret.ctx) = <<<<1, "X">>>>

\* C2: from every reachable state, after a push_application or a
\* pop_application the next iter_context_objects, in any context, returns the
\* merge of the new global stack with that context's snapshot, and no cache
\* entry is left that maps a snapshot to anything else.
C2_Coherent(S) ==
    /\ \A c \in alive :
           iter_context_objects(S, c).val = Some(Descending(Entries(S, c)))
    /\ \A e \in S.cache :
           e.val = Descending(Range(S.global) \cup Range(e.key.items))

C2_CacheCoherence ==
    /\ C2_Coherent(push_application(State, ObjOf(stack_count)).state)
    /\ C2_Coherent(pop_application(State).state)
    /\ (ret.op \in {"iter"} /\ ret.note[2]) =>
           ret.val = Some(Descending(Entries(State, ret.ctx)))

\* C2 witness: a context's snapshot was cached, a global mutation followed,
\* and the context's next iter_context_objects has returned, its snapshot
\* unchanged, a sequence that holds the global stack's new entry.
C2_Witness ==
    /\ ret.op = "iter" /\ ret.note[2]
    /\ StackItems(State, ret.ctx) # <<>>
    /\ global # <<>>
    /\ ret.val[1][1] = Last(global)[2]

\* C3: pop_context on an empty context stack and pop_application on an empty
\* global stack fail with an error, not an object, and leave the stack as it
\* was: no snapshot is stored, the global list is not touched.
C3_Underflow ==
    /\ \A c \in alive :
           StackItems(State, c) = <<>> =>
               LET r == pop_context(State, c)
               IN  /\ ~r.ok /\ r.val[1] \notin Objs
                   /\ r.state.context_stack = context_stack
    /\ global = <<>> =>
           LET r == pop_application(State)
           IN  /\ ~r.ok /\ r.val[1] \notin Objs
               /\ r.state.global = global
    /\ (ret.op = "pop_context" /\ ~ret.ok) => StackItems(State, ret.ctx) = <<>>
    /\ (ret.op = "pop_application" /\ ~ret.ok) => global = <<>>

\* C3 witness: after a push elsewhere, a pop_context has just failed in a
\* context whose stack is empty, and the global stack is empty too.
C3_Witness ==
    /\ ret.op = "pop_context" /\ ~ret.ok
    /\ stack_count > 0
    /\ ~pop_application(State).ok

\* C4: from every reachable state, push_context(obj) directly followed by
\* pop_context in the same context returns obj and leaves a snapshot equal,
\* entry for entry, to the one before the push (obj a new object, or one
\* that may be on a stack already).
C4_RoundTrip ==
    \A c \in alive, obj \in {ObjOf(stack_count), "A"} :
        LET r1 == push_context(State, c, obj)
            r2 == pop_context(r1.state, c)
        IN  /\ r1.ok /\ r2.ok
            /\ r2.val = Some(obj)
            /\ StackItems(r2.state, c) = StackItems(State, c)
            /\ FrozenSequence_eq(get_stack(r2.state, c)[1], get_stack(State, c)[1])

\* C4 witness: a pop_context has directly followed the same context's
\* push_context, on a stack that held an entry before the push.
C4_Witness ==
    /\ ret.op = "pop_context" /\ ret.ok /\ ret.note
    /\ StackItems(State, ret.ctx) # <<>>

\* C5: a forked context starts with its creator's context stack; a
\* push_context or pop_context in one context leaves every other context's
\* snapshot, and what iter_context_objects yields there, as it was; and every
\* context's iter_context_objects yields the global stack's objects, the same
\* ones in the same order.
OfGlobal(S, objects) ==
    SelectSeq(objects, LAMBDA o : o \in {e[2] : e \in Range(S.global)})

C5_Others(S, T, c) ==
    \A d \in alive \ {c} :
        /\ T.context_stack[d] = S.context_stack[d]
        /\ iter_context_objects(T, d).val = iter_context_objects(S, d).val

C5_Isolation ==
    /\ ret.op = "fork" => StackItems(State, ret.ctx) = StackItems(State, ret.val[1])
    /\ \A c \in alive :
           /\ C5_Others(State, push_context(State, c, ObjOf(stack_count)).state, c)
           /\ C5_Others(State, pop_context(State, c).state, c)
    /\ \A c \in alive :
           OfGlobal(State, iter_context_objects(State, c).val[1])
               = Descending(Range(global))

\* C5 witness: a context forked with a non-empty stack has pushed, so that it
\* and its creator, who started from one snapshot, hold different stacks.
C5_Witness ==
    /\ ret.op = "push_context"
    /\ \E d \in alive \ {ret.ctx} :
           /\ StackItems(State, d) # <<>>
           /\ Front(StackItems(State, ret.ctx)) = StackItems(State, d)

C7_Linearizable ==
    (\A c \in Ctx : pc[c] = "idle") =>
        \A e \in cache :
            e.val = Descending(Range(global) \cup Range(e.key.items))

\* C8: a successful pop_context returns the object, without its sequence
\* number, of the last entry of the caller's stack, the one pushed most
\* recently of those still on it, and stores the remaining prefix; a
\* successful pop_application does the same on the global stack.
C8_Lifo ==
    /\ \A c \in alive :
           LET items == StackItems(State, c)
               r == pop_context(State, c)
           IN  items # <<>> =>
                   /\ r.ok /\ r.val[1] \in Objs
                   /\ r.val = Some(Last(items)[2])
                   /\ r.val[1] = Descending(Range(items))[1]
                   /\ StackItems(r.state, c) = Front(items)
    /\ LET r == pop_application(State)
       IN  global # <<>> =>
               /\ r.ok /\ r.val[1] \in Objs
               /\ r.val = Some(Last(global)[2])
               /\ r.val[1] = Descending(Range(global))[1]
               /\ r.state.global = Front(global)

\* C8 witness: a pop_context has returned X, pushed after A, and left A.
C8_Witness ==
    /\ ret.op = "pop_context" /\ ret.ok
    /\ ret.val = Some("X")
    /\ StackItems(State, ret.ctx) = <<<<0, "A">>>>

\* C9: get(fallback) returns the value set in the current context if one is
\* set (right after a set, the value just set, whatever the fallback);
\* otherwise the call's fallback if one is passed, even when the variable has
\* a configured default; otherwise the configured default; otherwise nothing.
C9_GetPrecedence ==
    /\ \A c \in alive, fb \in Fallbacks :
           LET r == PyContextVar_Get(cv_values[c], fb, cv_default)
           IN  /\ cv_values[c] # None => r = cv_values[c]
               /\ (cv_values[c] = None /\ fb # None) => r = fb
               /\ (cv_values[c] = None /\ fb = None /\ cv_default # None) =>
                      r = cv_default
               /\ (cv_values[c] = None /\ fb = None /\ cv_default = None) =>
                      r = None
    /\ cv_ret.op = "set" =>
           \A fb \in Fallbacks :
               PyContextVar_Get(cv_values[cv_ret.ctx], fb, cv_default) = cv_ret.arg
    /\ cv_ret.op = "get" =>
           cv_ret.val = PyContextVar_Get(cv_values[cv_ret.ctx], cv_ret.arg, cv_default)

\* C9 witness: with a configured default foo and nothing set in the context,
\* get(bar) has returned bar.
C9_Witness ==
    /\ cv_ret.op = "get"
    /\ cv_default = Some("foo")
    /\ cv_values[cv_ret.ctx] = None
    /\ cv_ret.arg = Some("bar") /\ cv_ret.val = Some("bar")

\* C10: the token set returns holds the context's prior binding, which is
\* 'unset' exactly when, just before the set, get returned whatever fallback
\* it was passed (a configured default changes nothing there); and after a
\* successful reset(token) every get returns what the same get returned just
\* before that token's set.
C10_SetReset ==
    /\ cv_ret.op = "set" =>
           LET token == cv_tokens[cv_ret.tok]
               unset == /\ token.before[Some("foo")] = Some("foo")
                        /\ token.before[Some("bar")] = Some("bar")
           IN  /\ unset => token.old_value = None
               /\ ~unset => token.old_value = token.before[Some("foo")]
    /\ (cv_ret.op = "reset" /\ cv_ret.ok) =>
           \A fb \in Fallbacks :
               PyContextVar_Get(cv_values[cv_ret.ctx], fb, cv_default)
                   = cv_tokens[cv_ret.tok].before[fb]

\* C10 witness: with a configured default foo, a set in a context with
\* nothing set gave a token whose old value is 'unset', and the reset of that
\* token has left the context unset again.
C10_Witness ==
    /\ cv_ret.op = "reset" /\ cv_ret.ok
    /\ cv_default = Some("foo")
    /\ cv_tokens[cv_ret.tok].old_value = None
    /\ cv_values[cv_ret.ctx] = None

\* C11: two FrozenSequence objects are equal exactly when their element
\* sequences have the same length and the same element at every position;
\* equal objects hash alike; and __hash__ of one object returns the same
\* value on every call, the one kept in hash_cache since the first.
Elementwise(s, t) ==
    /\ Len(s) = Len(t)
    /\ \A k \in 1..Len(s) : s[k] = t[k]

C11_SequenceLaws ==
    /\ \A x \in Fs, y \in Fs :
           /\ FrozenSequence_eq(fs[x], fs[y]) <=> Elementwise(fs[x].items, fs[y].items)
           /\ FrozenSequence_eq(fs[x], fs[y]) =>
                  FrozenSequence_hash(fs[x]).val = FrozenSequence_hash(fs[y]).val
    /\ \A x \in Fs :
           LET r == FrozenSequence_hash(fs[x])
           IN  /\ r.self.hash_cache = Some(r.val)
               /\ FrozenSequence_hash(r.self) = r
               /\ fs[x].hash_cache # None => fs[x].hash_cache = Some(r.val)
    /\ fs_ret.op = "hash" => FrozenSequence_hash(fs[fs_ret.self]).val = fs_ret.val[1]
    /\ fs_ret.op = "eq" =>
           fs_ret.val[1] = Elementwise(fs[fs_ret.self].items, fs[fs_ret.other].items)

\* C11 witness: two distinct objects with the same two elements in the same
\* order have both been hashed, the second just now, to the same value.
C11_Witness ==
    /\ fs_ret.op = "hash" /\ fs_ret.self = "b"
    /\ fs["a"].oid # fs["b"].oid
    /\ Len(fs["a"].items) = 2 /\ fs["a"].items = fs["b"].items
    /\ fs["a"].hash_cache # None
    /\ fs["a"].hash_cache = Some(fs_ret.val[1])

\* C12: in every reachable state, also while push_application calls of
\* several threads are under way, each having drawn its sequence number and
\* not yet appended, the sequence numbers of the global stack's entries are
\* strictly increasing in stack order.
Increasing(q) == \A i \in 1..(Len(q) - 1) : q[i][1] < q[i + 1][1]

C12_GlobalIncreasing == Increasing(global)

\* C13: in every reachable state and for every context, forked ones
\* included, the sequence numbers of the entries of the context's current
\* snapshot are strictly increasing in stack order, and a push_context or a
\* pop_context leaves them so.
C13_ContextIncreasing ==
    \A c \in alive :
        /\ Increasing(StackItems(State, c))
        /\ Increasing(StackItems(push_context(State, c, ObjOf(stack_count)).state, c))
        /\ Increasing(StackItems(pop_context(State, c).state, c))

\* C13 witness: a forked context has pushed onto the entry it inherited.
C13_Witness ==
    /\ ret.op = "push_context" /\ ret.ctx # 1
    /\ Len(StackItems(State, ret.ctx)) = 2
    /\ StackItems(State, 1) = Front(StackItems(State, ret.ctx))

\* C14: the counter starts at 0; push_context and push_application each
\* advance it by exactly one and give the new entry the value it had before;
\* pop_context, pop_application and iter_context_objects (its cache clear
\* included) leave it as it is.
C14_Counter ==
    /\ ret = NoOp => stack_count = 0
    /\ LET r == push_application(State, ObjOf(stack_count))
       IN  /\ r.state.stack_count = stack_count + 1
           /\ Last(r.state.global) = <<stack_count, ObjOf(stack_count)>>
    /\ pop_application(State).state.stack_count = stack_count
    /\ \A c \in alive :
           /\ LET r == push_context(State, c, ObjOf(stack_count))
              IN  /\ r.state.stack_count = stack_count + 1
                  /\ Last(StackItems(r.state, c)) = <<stack_count, ObjOf(stack_count)>>
           /\ pop_context(State, c).state.stack_count = stack_count
           /\ iter_context_objects(State, c).state.stack_count = stack_count

\* C14 witness: a pop has emptied the last stack that held an entry, and the
\* counter still stands at the number of pushes made.
C14_Witness ==
    /\ ret.op \in {"pop_context", "pop_application"} /\ ret.ok
    /\ stack_count = MaxSeq
    /\ global = <<>>
    /\ \A c \in alive : StackItems(State, c) = <<>>

\* C15: under any interleaving of the threads' pushes, the entries a merge
\* chains (the global stack's and a context's) carry pairwise different
\* sequence numbers, so do the entries drawn and not yet published, and every
\* number in use is below the counter: the next draw returns a number that no
\* entry carries.
InFlight(c) == IF local[c].new_item = None THEN {} ELSE {local[c].new_item[1]}

Unpublished(c) == IF pc[c] \in {"append", "context_set"} THEN InFlight(c) ELSE {}

NoTie(q) == \A i \in 1..Len(q), j \in 1..Len(q) : i # j => q[i][1] # q[j][1]

C15_UniqueSeq ==
    /\ \A c \in alive : NoTie(global \o StackItems(State, c))
    /\ \A c \in alive, d \in alive :
           \A e \in Unpublished(c) :
               /\ \A f \in Range(global) \cup Range(StackItems(State, d)) : e[1] # f[1]
               /\ c # d => \A f \in Unpublished(d) : e[1] # f[1]
    /\ \A c \in alive :
           \A e \in Range(global) \cup Range(StackItems(State, c)) \cup InFlight(c) :
               e[1] < stack_count

\* C15 witness: two threads have each drawn a number, one for the global
\* stack and one for its context stack, and neither has published its entry.
C15_Witness ==
    /\ \E c \in alive, d \in alive :
           /\ pc[c] = "append" /\ pc[d] = "context_set"
           /\ local[c].new_item # None /\ local[d].new_item # None
           /\ local[c].new_item[1][1] # local[d].new_item[1][1]

\* C16: right after a push_application, and right after a successful
\* pop_application, the merge cache is empty, whatever snapshots of whatever
\* contexts it held before.
C16_GlobalMutationClears ==
    /\ push_application(State, ObjOf(stack_count)).state.cache = {}
    /\ LET r == pop_application(State)
       IN  r.ok => r.state.cache = {}
    /\ (ret.op \in AppOps /\ ret.ok) => cache = {}

\* C16 witness: a global mutation has just emptied a cache that held the
\* merges of two different snapshots.
C16_Witness ==
    /\ ret.op \in AppOps /\ ret.ok
    /\ Cardinality(ret.note) >= 2
    /\ cache = {}

\* C17 as stated: push_context and pop_context leave the global stack and
\* every entry of the merge cache as they were.
C17_NoEntryRemoved ==
    \A c \in alive :
        LET r1 == push_context(State, c, ObjOf(stack_count))
            r2 == pop_context(State, c)
        IN  /\ r1.state.global = global /\ r1.state.cache = cache
            /\ r2.state.global = global /\ r2.state.cache = cache

\* C17, amended: push_context and pop_context leave the global stack as it
\* was, add or alter no cache entry, and keep every entry whose key snapshot
\* some context still holds: the only entry that can go is the one keyed by
\* the snapshot object the caller has replaced, when no other context holds
\* that object. The replaced snapshot itself is not changed: every other
\* context holds what it held, and the entries that stay are its merges.
C17_Frame(c, r) ==
    LET old == get_stack(State, c)[1]
        T == r.state
    IN  /\ T.global = global
        /\ T.cache \subseteq cache
        /\ \A e \in cache \ T.cache :
               /\ e.key.oid = old.oid
               /\ \A d \in alive : get_stack(T, d)[1].oid # old.oid
        /\ \A d \in alive \ {c} : get_stack(T, d) = get_stack(State, d)
        /\ \A e \in T.cache :
               e.val = Descending(Range(T.global) \cup Range(e.key.items))

C17_OnlyReplacedKeyGoes ==
    \A c \in alive :
        /\ C17_Frame(c, push_context(State, c, ObjOf(stack_count)))
        /\ C17_Frame(c, pop_context(State, c))

\* C17 witness: a context has pushed, and the merge cached for the snapshot it
\* replaced, which its creator still holds, is still in the cache.
C17_Witness ==
    /\ ret.op = "push_context"
    /\ Front(StackItems(State, ret.ctx)) # <<>>
    /\ \E e \in cache, d \in alive \ {ret.ctx} :
           /\ e.key.items = Front(StackItems(State, ret.ctx))
           /\ get_stack(State, d)[1] = e.key

\* C18: an iter_context_objects that misses leaves the cache either with all
\* it held plus the caller's entry, or, when it held the cap or more, with
\* the caller's entry alone (snapshot -> returned merge): never with some of
\* the old entries gone and others kept.
C18_WholeCacheEviction ==
    /\ \A c \in alive :
           LET stack == get_stack(State, c)[1]
               r == iter_context_objects(State, c)
               entry == [key |-> stack, val |-> r.val[1]]
           IN  cache_get_item(cache, stack) = {} =>
                   r.state.cache =
                       IF Cardinality(cache) >= MAX_CONTEXT_OBJECT_CACHE
                       THEN {entry} ELSE cache \cup {entry}
    /\ (ret.op = "iter" /\ ret.note[1] = "reset") =>
           cache = {[key |-> get_stack(State, ret.ctx)[1], val |-> ret.val[1]]}

\* C18 witness: a read with a non-empty snapshot has missed on a full cache,
\* and the cache now holds its entry and nothing else.
C18_Witness ==
    /\ ret.op = "iter" /\ ret.note[1] = "reset"
    /\ StackItems(State, ret.ctx) # <<>>
    /\ cache = {[key |-> get_stack(State, ret.ctx)[1], val |-> ret.val[1]]}

\* C19: an iter_context_objects that misses adds exactly one cache entry,
\* keyed by the caller's snapshot, whose value is the sequence it returns; one
\* that hits returns the cached sequence and changes nothing; and a second
\* read right after a first returns the same sequence and changes nothing.
C19_Memoized ==
    \A c \in alive :
        LET stack == get_stack(State, c)[1]
            hit == cache_get_item(cache, stack)
            r == iter_context_objects(State, c)
            again == iter_context_objects(r.state, c)
        IN  /\ hit # {} =>
                   /\ r.state = State
                   /\ \A e \in hit : r.val = Some(e.val)
            /\ hit = {} =>
                   /\ r.state.cache \ cache = {[key |-> stack, val |-> r.val[1]]}
                   /\ r.state.global = global
                   /\ r.state.context_stack = context_stack
                   /\ r.state.stack_count = stack_count
            /\ again.val = r.val
            /\ again.state = r.state

\* C19 witness: a read has hit the cache and returned a merge of two objects.
C19_Witness ==
    /\ ret.op = "iter" /\ ret.ok /\ ret.note[1] = "hit"
    /\ Len(ret.val[1]) = 2
    /\ \E e \in cache : e.key = get_stack(State, ret.ctx)[1] /\ e.val = ret.val[1]

\* C20: when the reads of two threads that hold equal snapshots overlap, with
\* no global mutation between them, and both miss, both have computed the
\* same merge; each one's insert leaves a single entry for that key, holding
\* that merge, and an entry it finds under an equal key already holds the
\* same value; and what a returned read has returned is what the cache holds
\* for its snapshot.
C20_BenignRace ==
    /\ \A c \in alive, d \in alive :
           (/\ pc[c] = "cache_set_item" /\ pc[d] = "cache_set_item"
            /\ FrozenSequence_eq(local[c].stack, local[d].stack))
               => local[c].objects = local[d].objects
    /\ \A c \in alive :
           pc[c] = "cache_set_item" =>
               LET after == cache_set_item(cache, local[c].stack, local[c].objects)
               IN  /\ Cardinality(cache_get_item(after, local[c].stack)) = 1
                   /\ \A e \in cache_get_item(after, local[c].stack) :
                          e.val = local[c].objects
                   /\ \A e \in cache_get_item(cache, local[c].stack) :
                          e.val = local[c].objects
    /\ \A e \in cache, f \in cache : FrozenSequence_eq(e.key, f.key) => e = f
    /\ ret.op = "iter" =>
           \A e \in cache_get_item(cache, get_stack(State, ret.ctx)[1]) :
               e.val = ret.val[1]

\* C20 witness: two threads with equal, non-empty snapshots have both missed;
\* one has inserted its merge and returned, the other is about to insert the
\* same merge under the equal key.
C20_Witness ==
    /\ ret.op = "iter" /\ ret.ok /\ ret.val[1] # <<>>
    /\ \E c \in alive \ {ret.ctx} :
           /\ pc[c] = "cache_set_item"
           /\ FrozenSequence_eq(local[c].stack, get_stack(State, ret.ctx)[1])
           /\ local[c].objects = ret.val[1]
           /\ \E e \in cache : FrozenSequence_eq(e.key, local[c].stack)
                                  /\ e.val = ret.val[1]

\* C21 as stated: a global stack mutation leaves the merge cache as it was;
\* the clear it causes is left to the next miss, as the clear caused by the
\* cap is.
C21_LazyInvalidation ==
    /\ push_application(State, ObjOf(stack_count)).state.cache = cache
    /\ LET r == pop_application(State)
       IN  r.ok => r.state.cache = cache
    /\ \A c \in alive :
           LET r == iter_context_objects(State, c)
           IN  (cache_get_item(cache, get_stack(State, c)[1]) # {} \/ ~cache_full(cache))
                   => cache \subseteq r.state.cache

\* C21, amended: only the clear caused by the cap is lazy. A read that fills
\* the cache to the cap clears nothing and a full cache serves its hits
\* unchanged, the clear waiting for the next miss; a global stack mutation
\* clears the cache itself, so that whenever a handler has returned no entry
\* is older than the global stack and no read has a clear left to do for it.
C21_EagerOnMutation ==
    /\ \A obj \in {ObjOf(stack_count)} :
           LET r == push_application(State, obj)
           IN  r.state.global # global /\ r.state.cache = {}
    /\ LET r == pop_application(State)
       IN  r.state.global # global => r.state.cache = {}
    /\ \A c \in alive :
           LET stack == get_stack(State, c)[1]
               r == iter_context_objects(State, c)
           IN  /\ (cache_get_item(cache, stack) # {} \/ ~cache_full(cache))
                      => cache \subseteq r.state.cache
               /\ (cache_get_item(cache, stack) = {} /\ cache_full(cache))
                      => r.state.cache \cap cache = {}
    /\ \A e \in cache : e.val = merge_objects(global, e.key)
    /\ (ret.op \in AppOps /\ ret.ok /\ ret.note # {}) => cache = {}

\* C21 witness: a push_application has just returned; the cache, which held
\* the merge of a context's non-empty snapshot when it began, is empty
\* although no read has run since.
C21_Witness ==
    /\ ret.op = "push_application" /\ ret.ok
    /\ \E c \in alive :
           /\ StackItems(State, c) # <<>>
           /\ StackItems(State, c) \in ret.note
    /\ cache = {}

\* C22: a pop that fails with underflow returns the state it was called in:
\* the counter, the global stack, every context's snapshot and the merge
\* cache, which a failed pop_application does not clear.
C22_FailedPopFrame ==
    /\ \A c \in alive :
           LET r == pop_context(State, c)
           IN  /\ ~r.ok => r.state = State
               /\ ~r.ok <=> StackItems(State, c) = <<>>
    /\ LET r == pop_application(State)
       IN  /\ ~r.ok => r.state = State
           /\ ~r.ok <=> global = <<>>
    /\ (ret.op = "pop_application" /\ ~ret.ok) => ret.note = {e.key.items : e \in cache}

\* C22 witness: a pop_application has just failed on an empty global stack
\* after a push had moved the counter, and the cache still holds the merge of
\* a non-empty snapshot; that context's neighbour, whose stack is empty, would
\* fail its pop_context too.
C22_Witness ==
    /\ ret.op = "pop_application" /\ ~ret.ok
    /\ stack_count > 0
    /\ \E e \in cache : e.key.items # <<>>
    /\ \E c \in alive : ~pop_context(State, c).ok

====
